---- MODULE Spec2Model ----
(***************************************************************************)
(* Transactional test isolation of knex-integration-testing.               *)
(*                                                                         *)
(* The model follows one mocha run of src/__test__.js together with the    *)
(* suite of items-data.test.js: the root before hook seeds the database,   *)
(* every test is wrapped by beforeEach(begin(setup)) and                   *)
(* afterEach(() => trx.rollback()), and the root after hook destroys the   *)
(* pool.  The database is PostgreSQL: the items table with a serial id     *)
(* (migrations/20161112164249_table-items.js), whose identity sequence is  *)
(* not transactional.                                                      *)
(*                                                                         *)
(* Timing assumption: a mocha timeout is much longer than a database round *)
(* trip, so a hook is timed out only when no step of its own can still     *)
(* complete it.                                                            *)
(***************************************************************************)
EXTENDS Integers, Sequences, FiniteSets, TLC

VARIABLES
    pc,           \* position of the mocha runner
    seedStep,     \* statements of the seed already executed
    testIdx,      \* number of the test being run (0 before the first)
    table,        \* committed rows of the items table
    idSeq,        \* last value of the items_id_seq identity sequence
    scopes,       \* one record per db.transaction call, in call order
    view,         \* rows as seen inside the transaction in progress
    txFailed,     \* the transaction in progress has had a failed statement
    trx,          \* closure variable trx of the suite (0 = undefined)
    items,        \* handle the closure variable items is bound to (0 = undefined)
    doneCalled,   \* done of the current before-each hook has been called
    events,       \* events of the current test, in order
    prog,         \* operations the current test body has called
    results,      \* values the current test body has obtained
    before,       \* rows the current test saw when its body started
    prev,         \* program, before-state and results of the previous test
    outcome,      \* how the body of the current test ended
    rejection,    \* what the last rejected lifetime promise was rejected by
    failures,     \* hook and process failures reported in the run
    seedCount,    \* completed runs of the seed
    destroyCount  \* calls of db.destroy

vars == <<pc, seedStep, testIdx, table, idSeq, scopes, view, txFailed, trx,
          items, doneCalled, events, prog, results, before, prev,
          outcome, rejection, failures, seedCount, destroyCount>>

----------------------------------------------------------------------------
(* Bounds *)

NTests == 2
MaxOps == 2

----------------------------------------------------------------------------
(* Rows of the items table and the seed *)

Null == "NULL"

Row(id, sku, description) ==
    [id |-> id, sku |-> sku, mpn |-> Null, description |-> description]

SeedItems ==
    << [sku |-> "hammer",   description |-> "A Claw Hammer"],
       [sku |-> "drill",    description |-> "A Power Drill"],
       [sku |-> "toolbelt", description |-> "A Useful Belt"] >>

SeedRows ==
    { Row(i, SeedItems[i].sku, SeedItems[i].description) : i \in 1..Len(SeedItems) }

\* What an earlier development session may have left in the database.
DirtyRows == { Row(7, "wrench", "A Left Over") }

----------------------------------------------------------------------------
(* The repository itemsData(db): every operation runs on the rows its handle
   sees. db is [rows, seq, failed]: the rows visible through the handle, the
   identity sequence, and whether a statement of the transaction has failed.
   Each operation yields the handle's state afterwards and the value the
   caller's promise settles with. *)

RowsResult(rs)  == [kind |-> "rows", rows |-> rs, flag |-> FALSE]
FirstResult(rs) == [kind |-> IF rs = {} THEN "undefined" ELSE "row",
                    rows |-> rs, flag |-> FALSE]
BoolResult(b)   == [kind |-> "bool", rows |-> {}, flag |-> b]
Rejection       == [kind |-> "rejected", rows |-> {}, flag |-> FALSE]

find(db) == [db |-> db, result |-> RowsResult(db.rows)]

findById(db, id) ==
    [db |-> db, result |-> FirstResult({ r \in db.rows : r.id = id })]

\* (variant: the returned array of ids is not destructured, so the lookup by
\* id finds nothing)
CreateWithoutDestructuring(db, item) ==
    LET id == db.seq + 1
        violates == item.sku = Null \/ \E r \in db.rows : r.sku = item.sku
    IN  IF violates
        THEN [db |-> [db EXCEPT !.seq = id, !.failed = TRUE], result |-> Rejection]
        ELSE findById([db EXCEPT !.seq = id,
                                 !.rows = @ \cup {Row(id, item.sku, item.description)}],
                      0)

\* (variant: create catches the error of the insert and resolves with undefined)
CreateSwallowingError(db, item) ==
    LET id == db.seq + 1
        violates == item.sku = Null \/ \E r \in db.rows : r.sku = item.sku
    IN  IF violates
        THEN [db |-> [db EXCEPT !.seq = id, !.failed = TRUE],
              result |-> FirstResult({})]
        ELSE findById([db EXCEPT !.seq = id,
                                 !.rows = @ \cup {Row(id, item.sku, item.description)}],
                      id)

\* insert ... returning id: the serial default takes the next sequence value
\* before the unique and not-null constraints on sku are checked.
create(db, item) ==
    LET id == db.seq + 1
        violates == item.sku = Null \/ \E r \in db.rows : r.sku = item.sku
    IN  IF violates
        THEN [db |-> [db EXCEPT !.seq = id, !.failed = TRUE], result |-> Rejection]
        ELSE findById([db EXCEPT !.seq = id,
                                 !.rows = @ \cup {Row(id, item.sku, item.description)}],
                      id)

\* update(props).where({ id }): props names the columns to set (Null: the
\* column is not among them); the unique constraint on sku is checked.
updateById(db, id, props) ==
    LET hit == { r \in db.rows : r.id = id }
        violates == /\ props.sku # Null
                    /\ hit # {}
                    /\ \E r \in db.rows \ hit : r.sku = props.sku
    IN  IF violates
        THEN [db |-> [db EXCEPT !.failed = TRUE], result |-> Rejection]
        ELSE findById([db EXCEPT !.rows =
                         { IF r.id = id
                           THEN [r EXCEPT
                                   !.sku = IF props.sku = Null THEN @ ELSE props.sku,
                                   !.description = IF props.description = Null THEN @
                                                   ELSE props.description]
                           ELSE r : r \in @ }],
                      id)

\* (variant: the hook returns true without looking at the returned ids)
DeleteByIdAlwaysTrue(db, id) ==
    LET deleted == { r \in db.rows : r.id = id }
    IN  [db |-> [db EXCEPT !.rows = @ \ deleted], result |-> BoolResult(TRUE)]

deleteById(db, id) ==
    LET deleted == { r \in db.rows : r.id = id }
    IN  [db |-> [db EXCEPT !.rows = @ \ deleted], result |-> BoolResult(deleted # {})]

\* The operations a test body may call; find is what it sees as it starts.
FindOp == [op |-> "find", id |-> 0, sku |-> Null, description |-> Null]

Ops ==
    { [op |-> "create",     id |-> 0, sku |-> "saw",    description |-> "A Nice Saw"],
      [op |-> "create",     id |-> 0, sku |-> "hammer", description |-> "Another Hammer"],
      [op |-> "create",     id |-> 0, sku |-> Null,     description |-> "No Sku"],
      [op |-> "updateById", id |-> 1, sku |-> Null,     description |-> "X"],
      [op |-> "updateById", id |-> 2, sku |-> "hammer", description |-> Null],
      [op |-> "deleteById", id |-> 1, sku |-> Null,     description |-> Null] }

Call(db, o) ==
    CASE o.op = "find"       -> find(db)
      [] o.op = "findById"   -> findById(db, o.id)
      [] o.op = "create"     -> create(db, [sku |-> o.sku, description |-> o.description])
      [] o.op = "updateById" -> updateById(db, o.id, [sku |-> o.sku,
                                                      description |-> o.description])
      [] o.op = "deleteById" -> deleteById(db, o.id)

\* A query through a handle: only an open transaction without a failed
\* statement executes it; any other handle rejects it.
Query(db, usable, o) ==
    IF usable /\ ~db.failed THEN Call(db, o) ELSE [db |-> db, result |-> Rejection]

----------------------------------------------------------------------------
(* The scope controller: begin, rejected, and the hooks of the suite *)

\* db.transaction(container): the lifetime promise of a requested transaction.
transaction ==
    [state |-> "Pending", promise |-> "pending", handled |-> FALSE]

\* (variant: the promise is passed on without a catch handler)
RejectedWithoutCatch(promise) == promise

\* rejected = promise => promise.catch(err => err)
rejected(promise) == [promise EXCEPT !.handled = TRUE]

\* begin(setup)(done): the transaction is requested and its promise is handed
\* to rejected in the same synchronous step.
begin == rejected(transaction)

\* (variant: done() is called before setup(trx))
ContainerDoneFirst == <<"done", "setup">>

\* The container trx => { setup(trx); done() }: the order of its two calls ...
ContainerEvents == <<"setup", "done">>

\* (variant: an async container, whose promise resolves as soon as it returns)
ContainerReturnsThenable == "thenable"

\* ... and its return value. knex commits when the container returns a
\* thenable that resolves; this container has a block body and returns nothing.
ContainerReturn == "undefined"

\* The ways a setup callback can end. The suite's setup assigns trx, then items.
SetupOutcomes == {"returns", "throwsBeforeAssign", "throwsAfterAssign"}

\* The root connection db as a handle.
Root == -1

\* (variant: the repository is bound to the root connection, itemsData(db))
RepositoryOnRoot(t) == Root

\* items = itemsData(trx): the handle the suite's setup binds the repository to.
RepositoryHandle(t) == t

\* (variant: the hook ends the transaction with trx.commit())
EndScopeCommit == "COMMIT"

\* afterEach(() => trx.rollback()): the statement the hook issues ...
EndScope == "ROLLBACK"

\* (variant: a block body that drops the promise, () => { trx.rollback() })
AfterEachDropsPromise == FALSE

\* ... and whether the hook returns the promise of that statement to mocha.
AfterEachReturnsPromise == TRUE

InFlight == {"Pending", "Open", "RollingBack", "Committing"}

Completed(sc) == sc.state \notin InFlight

HookFailed(fs) == \E f \in fs : f.hook \in {"beforeEach", "afterEach"}

\* Where the runner goes when an after-each hook has finished: a failed hook
\* skips the rest of the suite.
NextPc(fs) == IF HookFailed(fs) \/ testIdx = NTests THEN "after" ELSE "beforeEach"

Failure(hook, cause) == [hook |-> hook, cause |-> cause]

\* A rejection nobody handles is reported at the process level.
Unhandled(sc) == sc.promise = "rejected" /\ ~sc.handled

Current == Len(scopes)

----------------------------------------------------------------------------
Init ==
    /\ pc = "before"
    /\ seedStep = 0
    /\ testIdx = 0
    /\ table \in {{}, DirtyRows}
    /\ idSeq = IF table = {} THEN 0 ELSE 7
    /\ scopes = <<>>
    /\ view = {}
    /\ txFailed = FALSE
    /\ trx = 0
    /\ items = 0
    /\ doneCalled = FALSE
    /\ events = <<>>
    /\ prog = <<>>
    /\ results = <<>>
    /\ before = {}
    /\ prev = [valid |-> FALSE, prog |-> <<>>, results |-> <<>>, before |-> {}]
    /\ outcome = "none"
    /\ rejection = "none"
    /\ failures = {}
    /\ seedCount = 0
    /\ destroyCount = 0

\* (variant: a block body that drops the promise, () => { db.seed.run() })
BeforeDropsPromise == FALSE

\* before(() => db.seed.run()): the hook returns the promise of the seed, so
\* mocha waits for the seed before it goes on.
BeforeReturnsPromise == TRUE

\* Where the runner goes when the before hook is over.
FirstPc == IF NTests = 0 THEN "after" ELSE "beforeEach"

\* mocha calls the before hook; seed: truncate table items restart identity
SeedTruncate ==
    /\ pc = "before" /\ seedStep = 0
    /\ table' = {}
    /\ idSeq' = 0
    /\ seedStep' = 1
    /\ pc' = IF BeforeReturnsPromise THEN pc ELSE FirstPc
    /\ UNCHANGED <<testIdx, scopes, view, txFailed, trx, items, doneCalled,
                   events, prog, results, before, prev, outcome, rejection,
                   failures, seedCount, destroyCount>>

\* seed: insert the three items; before() has then resolved.
SeedInsert ==
    /\ seedStep = 1
    /\ table' = table \cup { Row(idSeq + i, SeedItems[i].sku, SeedItems[i].description) :
                             i \in 1..Len(SeedItems) }
    /\ idSeq' = idSeq + Len(SeedItems)
    /\ seedStep' = 2
    /\ seedCount' = seedCount + 1
    /\ pc' = IF pc = "before" THEN FirstPc ELSE pc
    /\ UNCHANGED <<testIdx, scopes, view, txFailed, trx, items, doneCalled,
                   events, prog, results, before, prev, outcome, rejection,
                   failures, destroyCount>>

\* mocha calls the before-each hook begin(setup) with done.
BeginHook ==
    /\ pc = "beforeEach"
    /\ testIdx' = testIdx + 1
    /\ scopes' = Append(scopes, begin)
    /\ doneCalled' = FALSE
    /\ events' = <<>>
    /\ prev' = [valid |-> \E k \in 1..Len(events) : events[k] = "bodyStart",
                prog |-> prog, results |-> results, before |-> before]
    /\ prog' = <<>>
    /\ results' = <<>>
    /\ before' = {}
    /\ outcome' = "none"
    /\ pc' = "beforeEachWait"
    /\ UNCHANGED <<seedStep, table, idSeq, view, txFailed, trx, items, rejection,
                   failures, seedCount, destroyCount>>

\* The database acknowledges BEGIN and knex calls the container.
TransactionStart ==
    /\ pc = "beforeEachWait"
    /\ scopes[Current].state = "Pending"
    /\ view' = table
    /\ txFailed' = FALSE
    /\ \E setupOutcome \in SetupOutcomes :
         IF setupOutcome = "returns"
         THEN /\ trx' = Current
              /\ items' = RepositoryHandle(Current)
              /\ doneCalled' = TRUE
              /\ events' = events \o ContainerEvents
              /\ scopes' = [scopes EXCEPT ![Current] =
                              IF ContainerReturn = "undefined"
                              THEN [@ EXCEPT !.state = "Open"]
                              ELSE [@ EXCEPT !.state = "Committed",
                                             !.promise = "resolved"]]
              /\ pc' = "test"
              /\ UNCHANGED rejection
         ELSE \* knex catches the throw and rolls the transaction back
              /\ trx' = IF setupOutcome = "throwsAfterAssign" THEN Current ELSE trx
              /\ scopes' = [scopes EXCEPT ![Current].state = "RollingBack"]
              /\ rejection' = "setupThrow"
              /\ UNCHANGED <<items, doneCalled, events, pc>>
    /\ UNCHANGED <<seedStep, testIdx, table, idSeq, prog, results, before, prev,
                   outcome, failures, seedCount, destroyCount>>

\* The transaction cannot be started: the lifetime promise is rejected and
\* the container is never called.
TransactionStartFails ==
    /\ pc = "beforeEachWait"
    /\ scopes[Current].state = "Pending"
    /\ scopes' = [scopes EXCEPT ![Current].state = "Aborted",
                                ![Current].promise = "rejected"]
    /\ rejection' = "startError"
    /\ failures' = failures \cup
                   (IF Unhandled(scopes'[Current])
                    THEN {Failure("process", "unhandledRejection")} ELSE {})
    /\ UNCHANGED <<pc, seedStep, testIdx, table, idSeq, view, txFailed, trx, items,
                   doneCalled, events, prog, results, before, prev, outcome,
                   seedCount, destroyCount>>

\* done was never called and nothing is left that could call it.
BeforeEachTimeout ==
    /\ pc = "beforeEachWait"
    /\ ~doneCalled
    /\ Completed(scopes[Current])
    /\ failures' = failures \cup {Failure("beforeEach", "timeout")}
    /\ pc' = "afterEach"
    /\ UNCHANGED <<seedStep, testIdx, table, idSeq, scopes, view, txFailed, trx,
                   items, doneCalled, events, prog, results, before, prev,
                   outcome, rejection, seedCount, destroyCount>>

\* A transaction handle executes queries only while its transaction is open;
\* the root connection executes them until the pool is destroyed.
Usable(h) == IF h = Root THEN destroyCount = 0
             ELSE h # 0 /\ scopes[h].state = "Open"

\* What a handle sees: the root connection works on the committed table and
\* commits every statement, a transaction works on its own rows.
HandleDb(h) ==
    IF h = Root THEN [rows |-> table, seq |-> idSeq, failed |-> FALSE]
                ELSE [rows |-> view, seq |-> idSeq, failed |-> txFailed]

\* mocha calls the test function: the body starts on the rows its handle sees.
TestStart ==
    /\ pc = "test"
    /\ events' = Append(events, "bodyStart")
    /\ before' = Query(HandleDb(items), Usable(items), FindOp).result.rows
    /\ pc' = "body"
    /\ UNCHANGED <<seedStep, testIdx, table, idSeq, scopes, view, txFailed, trx,
                   items, doneCalled, prog, results, prev, outcome, rejection,
                   failures, seedCount, destroyCount>>

\* The body awaits one repository operation; a rejected operation ends the
\* body as a failed test.
TestOp ==
    /\ pc = "body"
    /\ Len(prog) < MaxOps
    /\ \E o \in Ops :
         LET r == Query(HandleDb(items), Usable(items), o)
         IN  /\ IF items = Root
                THEN table' = r.db.rows /\ UNCHANGED <<view, txFailed>>
                ELSE view' = r.db.rows /\ txFailed' = r.db.failed /\ UNCHANGED table
             /\ idSeq' = r.db.seq
             /\ prog' = Append(prog, o)
             /\ results' = Append(results, r.result)
             /\ IF r.result.kind = "rejected"
                THEN /\ outcome' = "queryError"
                     /\ events' = Append(events, "bodyEnd")
                     /\ pc' = "afterEach"
                ELSE UNCHANGED <<outcome, events, pc>>
    /\ UNCHANGED <<seedStep, testIdx, scopes, trx, items, doneCalled,
                   before, prev, rejection, failures, seedCount, destroyCount>>

\* The body returns; its assertions have passed or one of them has thrown.
TestEnd ==
    /\ pc = "body"
    /\ outcome' \in {"passed", "assertionError"}
    /\ events' = Append(events, "bodyEnd")
    /\ pc' = "afterEach"
    /\ UNCHANGED <<seedStep, testIdx, table, idSeq, scopes, view, txFailed, trx,
                   items, doneCalled, prog, results, before, prev, rejection,
                   failures, seedCount, destroyCount>>

\* mocha calls the after-each hook () => trx.rollback().
AfterEach ==
    /\ pc = "afterEach"
    /\ IF trx = 0
       THEN \* trx is undefined: the hook throws a TypeError
            /\ failures' = failures \cup {Failure("afterEach", "TypeError")}
            /\ pc' = NextPc(failures')
            /\ UNCHANGED <<scopes, events>>
       ELSE /\ events' = Append(events, "endScope")
            /\ UNCHANGED failures
            /\ IF scopes[trx].state = "Open"
               THEN /\ scopes' = [scopes EXCEPT ![trx].state =
                                    IF EndScope = "ROLLBACK" THEN "RollingBack"
                                                             ELSE "Committing"]
                    /\ pc' = IF AfterEachReturnsPromise THEN "afterEachWait"
                                                        ELSE NextPc(failures)
               ELSE \* a completed transaction refuses the statement; knex
                    \* catches that and the returned promise resolves
                    /\ pc' = NextPc(failures)
                    /\ UNCHANGED scopes
    /\ UNCHANGED <<seedStep, testIdx, table, idSeq, view, txFailed, trx, items,
                   doneCalled, prog, results, before, prev, outcome, rejection,
                   seedCount, destroyCount>>

\* The database answers the statement that ends a transaction. A ROLLBACK,
\* acknowledged or failed, rejects the lifetime promise and discards the
\* transaction's rows; the identity sequence is not transactional and keeps
\* its value.
Settle ==
    \E i \in 1..Len(scopes) :
      /\ scopes[i].state \in {"RollingBack", "Committing"}
      /\ IF scopes[i].state = "RollingBack"
         THEN /\ scopes' = [scopes EXCEPT ![i].state = "RolledBack",
                                          ![i].promise = "rejected"]
              /\ \E acknowledged \in BOOLEAN :
                   rejection' = IF rejection = "setupThrow" /\ pc = "beforeEachWait"
                                THEN rejection
                                ELSE IF acknowledged THEN "rollback"
                                ELSE "rollbackError"
              /\ table' = table
         ELSE /\ scopes' = [scopes EXCEPT ![i].state = "Committed",
                                          ![i].promise = "resolved"]
              /\ table' = view
              /\ UNCHANGED rejection
      /\ view' = {}
      /\ txFailed' = FALSE
      /\ failures' = failures \cup
                     (IF Unhandled(scopes'[i])
                      THEN {Failure("process", "unhandledRejection")} ELSE {})
      /\ pc' = IF pc = "afterEachWait" THEN NextPc(failures') ELSE pc
      /\ UNCHANGED <<seedStep, testIdx, idSeq, trx, items, doneCalled, events,
                     prog, results, before, prev, outcome, seedCount, destroyCount>>

\* after(() => db.destroy())
After ==
    /\ pc = "after"
    /\ destroyCount' = destroyCount + 1
    /\ pc' = "finished"
    /\ UNCHANGED <<seedStep, testIdx, table, idSeq, scopes, view, txFailed, trx,
                   items, doneCalled, events, prog, results, before, prev,
                   outcome, rejection, failures, seedCount>>

Next ==
    \/ SeedTruncate
    \/ SeedInsert
    \/ BeginHook
    \/ TransactionStart
    \/ TransactionStartFails
    \/ BeforeEachTimeout
    \/ TestStart
    \/ TestOp
    \/ TestEnd
    \/ AfterEach
    \/ Settle
    \/ After

Spec == Init /\ [][Next]_vars

\* mocha runs every hook and test it has scheduled and the database answers
\* every statement.
FairSpec == Spec /\ WF_vars(Next)

----------------------------------------------------------------------------
(* Properties *)

Has(e) == \E k \in 1..Len(events) : events[k] = e

ScopeIds == 1..Len(scopes)

\* An operation of a finished body that changed rows inside its scope.
Mutated(p, rs) ==
    \E k \in 1..Len(p) :
      \/ p[k].op = "create" /\ rs[k].kind = "row"
      \/ p[k].op = "updateById" /\ rs[k].kind = "row"
      \/ p[k].op = "deleteById" /\ rs[k].flag

\* C1: once the seed has run, the committed items table holds exactly the
\* seeded rows at every later point of the run, in particular after each
\* test's rollback, and every test body starts on exactly the seeded rows: no
\* insert, update or delete of one test is visible to a later test.
C1_MutationsNeverPersist ==
    seedStep = 2 =>
      /\ table = SeedRows
      /\ Has("bodyStart") => before = SeedRows

\* C1 witness: the second test has started on the seeded rows after a first
\* test that changed rows in its scope and was rolled back.
C1_Witness ==
    /\ testIdx = 2 /\ pc = "body"
    /\ prev.valid /\ Mutated(prev.prog, prev.results)
    /\ scopes[1].state = "RolledBack"
    /\ before = SeedRows /\ table = SeedRows

Opened(i) == i \in ScopeIds /\ scopes[i].state \in {"Open", "RollingBack"}

RolledBack(i) == i \in ScopeIds /\ scopes[i].state = "RolledBack"

\* C2: every scope whose transaction was opened is eventually rolled back,
\* and no scope is ever committed, whether the body passes or fails or the
\* setup callback throws.
C2_EveryScopeRolledBackNeverCommitted ==
    /\ \A i \in 1..NTests : Opened(i) ~> RolledBack(i)
    /\ [](\A i \in ScopeIds : scopes[i].state \notin {"Committing", "Committed"})

\* C2 witness: the scope of a first test that ran its body was rolled back,
\* and so was the scope of a second test whose setup threw.
C2_Witness ==
    /\ testIdx = 2
    /\ RolledBack(1) /\ prev.valid
    /\ RolledBack(2) /\ rejection = "setupThrow" /\ ~doneCalled

\* C3: at most one scope is requested, open or being rolled back at any time:
\* every earlier scope has completed before the next one is requested.
C3_AtMostOneScopeOpen ==
    /\ Cardinality({ i \in ScopeIds : scopes[i].state \in InFlight }) <= 1
    /\ \A i \in ScopeIds : i < Current => Completed(scopes[i])

\* C3 witness: the second test's scope is open and the first one's is rolled
\* back.
C3_Witness ==
    /\ Len(scopes) = 2
    /\ scopes[1].state = "RolledBack"
    /\ scopes[2].state = "Open"

EventOrder == <<"setup", "done", "bodyStart", "bodyEnd", "endScope">>

Rank(e) == CHOOSE k \in 1..Len(EventOrder) : EventOrder[k] = e

\* C4: within a test, setup returns before done is signalled, done is
\* signalled before the body starts, and the rollback is invoked only after a
\* started body has ended; no event of the test happens twice or out of this
\* order.
C4_EventOrderWithinTest ==
    /\ \A j, k \in 1..Len(events) : j < k => Rank(events[j]) < Rank(events[k])
    /\ Has("done") => Has("setup")
    /\ Has("bodyStart") => Has("done")
    /\ Has("bodyEnd") => Has("bodyStart")
    /\ (Has("endScope") /\ Has("bodyStart")) => Has("bodyEnd")
    /\ pc = "body" => (Has("bodyStart") /\ ~Has("bodyEnd") /\ ~Has("endScope"))

\* C4 witness: a test has gone through all five events.
C4_Witness == events = EventOrder

\* C5: when done has been signalled and the body starts, the scope is open
\* and its lifetime promise has not settled.
C5_DoneWhileScopeOpen ==
    (doneCalled /\ pc \in {"test", "body"}) =>
      /\ scopes[Current].state = "Open"
      /\ scopes[Current].promise = "pending"

\* C5 witness: done has been signalled, the body is about to start, and the
\* lifetime promise is pending.
C5_Witness ==
    /\ pc = "test" /\ doneCalled /\ Has("done") /\ ~Has("bodyStart")
    /\ scopes[Current].promise = "pending"

\* C6: every rejected lifetime promise has the handler of rejected attached,
\* and no unhandled rejection is ever reported, whatever rejected the promise.
C6_NoUnhandledRejection ==
    /\ \A i \in ScopeIds : ~Unhandled(scopes[i])
    /\ \A i \in ScopeIds : scopes[i].promise = "rejected" => scopes[i].handled
    /\ Failure("process", "unhandledRejection") \notin failures

\* C6 witness: lifetime promises have been rejected by a failed rollback
\* after an earlier scope was rolled back.
C6_Witness ==
    /\ Len(scopes) = 2
    /\ scopes[1].promise = "rejected"
    /\ scopes[2].promise = "rejected"
    /\ rejection = "rollbackError"

\* C7 (as claimed): when the transaction fails to start, the before-each hook
\* still calls done and is not reported as failed.
C7_StartFailureStillSignalsDone ==
    (Current >= 1 /\ scopes[Current].state = "Aborted" /\ pc # "beforeEachWait") =>
      /\ doneCalled
      /\ \A f \in failures : f.hook # "beforeEach"

\* C8 (as claimed): when setup throws, the before-each hook fails with the
\* error setup threw, which does not end as the rejection of the lifetime
\* promise that rejected swallows.
C8_SetupThrowFailsHookWithItsError ==
    (rejection = "setupThrow" /\ pc # "beforeEachWait") =>
      /\ Failure("beforeEach", "setupError") \in failures
      /\ ~(scopes[Current].promise = "rejected" /\ scopes[Current].handled)

SameTestTwice == prev.valid /\ Has("bodyEnd") /\ prog = prev.prog

\* C9 (as claimed): a test run twice in sequence starts on the same rows and
\* obtains the same values both times, generated ids included.
C9_SameTestSameResults ==
    SameTestTwice => (before = prev.before /\ results = prev.results)

EraseIds(res) == [res EXCEPT !.rows = { [r EXCEPT !.id = 0] : r \in @ }]

NoCreateBefore(k) == \A j \in 1..(k - 1) : prog[j].op # "create"

\* C9 (amended): a test run twice in sequence starts on the same rows both
\* times, and every value it obtains up to and including its first create is
\* the same both times, except the generated id of the created row, which is
\* larger in the later run.
C9_SameTestSameResultsButIds ==
    SameTestTwice =>
      /\ before = prev.before
      /\ Len(results) = Len(prev.results)
      /\ \A k \in 1..Len(prog) :
           NoCreateBefore(k) =>
             IF prog[k].op = "create"
             THEN /\ EraseIds(results[k]) = EraseIds(prev.results[k])
                  /\ \A r \in results[k].rows : \A q \in prev.results[k].rows :
                       r.id > q.id
             ELSE results[k] = prev.results[k]

\* C9 witness: the same body, which updates a row and then creates one, has
\* run in two tests in sequence.
C9_Witness ==
    /\ SameTestTwice
    /\ Len(prog) = 2
    /\ prog[1].op = "updateById" /\ results[1].kind = "row"
    /\ prog[2].op = "create" /\ results[2].kind = "row"

\* C10: db.destroy is called at most once, only when the run is over (the
\* last test is done or a failed hook has ended the suite), never while a
\* scope is requested, open or being rolled back, and a finished run has
\* called it.
C10_DestroyOnceAfterAllScopes ==
    /\ destroyCount <= 1
    /\ (pc = "finished") <=> (destroyCount = 1)
    /\ destroyCount = 1 =>
         /\ \A i \in ScopeIds : Completed(scopes[i])
         /\ testIdx = NTests \/ HookFailed(failures)
         /\ seedCount = 1

\* C10 witness: the pool has been destroyed after every test ran and every
\* scope was rolled back.
C10_Witness ==
    /\ destroyCount = 1
    /\ testIdx = NTests /\ ~HookFailed(failures)
    /\ \A i \in 1..NTests : RolledBack(i)

\* C11: the seed runs once, and no test starts and no transaction is
\* requested before it has completed: when the first before-each hook runs,
\* the table has been truncated, the identity sequence restarted and exactly
\* the three baseline rows inserted.
C11_SeedCompleteBeforeFirstScope ==
    /\ seedCount <= 1
    /\ (seedCount = 1) <=> (seedStep = 2)
    /\ (testIdx >= 1 \/ Len(scopes) >= 1 \/ pc # "before") =>
         (seedStep = 2 /\ SeedRows \subseteq table)
    /\ (seedStep = 2 /\ testIdx = 0) =>
         (table = SeedRows /\ idSeq = Len(SeedItems))
    /\ (seedStep = 1) => (table = {} /\ idSeq = 0 /\ scopes = <<>>)

\* C11 witness: the first transaction has been requested on the table holding
\* exactly the three seeded rows.
C11_Witness ==
    /\ testIdx = 1 /\ pc = "beforeEachWait"
    /\ scopes[1].state = "Pending"
    /\ seedCount = 1 /\ table = SeedRows /\ idSeq = 3

\* What find returns through the handle of the repository.
FindRows == Query(HandleDb(items), Usable(items), FindOp).result.rows

\* The body has just been answered an operation.
Answered == pc = "body" /\ Len(prog') = Len(prog) + 1

LastOp == prog[Len(prog)]

LastResult == results[Len(results)]

\* C12: inside an open scope a mutation is visible to later reads through the
\* same handle. A create that is not rejected returns a row with the fields
\* of the item, and find then returns that row and one row more than before
\* (4 when it is the first operation on the 3-row baseline); an updateById
\* that returns a row returns it with the props, and find returns that row.
C12_MutationVisibleInScope ==
    [][Answered =>
         /\ (LastOp'.op = "create" /\ LastResult'.kind # "rejected") =>
              /\ LastResult'.kind = "row"
              /\ \A r \in LastResult'.rows :
                   r.sku = LastOp'.sku /\ r.description = LastOp'.description
              /\ LastResult'.rows \subseteq FindRows'
              /\ Cardinality(FindRows') = Cardinality(FindRows) + 1
              /\ Len(prog) = 0 => Cardinality(FindRows') = Len(SeedItems) + 1
         /\ (LastOp'.op = "updateById" /\ LastResult'.kind # "rejected") =>
              /\ LastResult'.kind = "row" <=> (\E r \in FindRows : r.id = LastOp'.id)
              /\ \A r \in LastResult'.rows :
                   /\ r.id = LastOp'.id
                   /\ LastOp'.description # Null => r.description = LastOp'.description
                   /\ LastOp'.sku # Null => r.sku = LastOp'.sku
              /\ LastResult'.rows \subseteq FindRows'
              /\ Cardinality(FindRows') = Cardinality(FindRows)]_vars

\* C12 witness: the body has updated row 1 and then created the saw, and find
\* returns four rows, the updated and the created one among them.
C12_Witness ==
    /\ pc = "body" /\ Len(prog) = 2
    /\ prog[1].op = "updateById" /\ results[1].kind = "row"
    /\ prog[2].op = "create" /\ results[2].kind = "row"
    /\ Cardinality(FindRows) = 4
    /\ results[2].rows \subseteq FindRows
    /\ \E r \in FindRows : r.id = 1 /\ r.description = "X"

\* What findById(id) returns through the handle of the repository.
FindByIdOp(id) == [op |-> "findById", id |-> id, sku |-> Null, description |-> Null]

FoundById(id) == Query(HandleDb(items), Usable(items), FindByIdOp(id)).result

\* The ids the previous test deleted in its scope.
DeletedBefore ==
    { prev.prog[k].id : k \in { j \in 1..Len(prev.prog) :
                                  prev.prog[j].op = "deleteById" /\ prev.results[j].flag } }

\* C13: a deleteById(id) that is answered returns true exactly when the
\* scope's rows held a row with that id, and the row is absent from the scope
\* afterwards; when the next test starts after the rollback, findById(id)
\* finds the seeded row again.
C13_DeleteInScopeUndoneByRollback ==
    [][/\ \A id \in { o.id : o \in Ops } :
            (/\ Answered /\ LastOp'.op = "deleteById" /\ LastOp'.id = id
             /\ LastResult'.kind # "rejected") =>
               /\ LastResult'.kind = "bool"
               /\ LastResult'.flag <=> (\E r \in FindRows : r.id = id)
               /\ ~ \E r \in FindRows' : r.id = id
               /\ FoundById(id)'.kind = "undefined"
               /\ FindRows' = { r \in FindRows : r.id # id }
       /\ (pc = "test" /\ pc' = "body" /\ prev.valid) =>
            \A id \in DeletedBefore :
              /\ FoundById(id)'.kind = "row"
              /\ FoundById(id)'.rows \subseteq SeedRows]_vars

\* C13 witness: the previous test deleted row 1 and got true, deleted it again
\* and got false, its scope was rolled back, and findById(1) finds the row as
\* this test's body starts.
C13_Witness ==
    /\ testIdx = 2 /\ pc = "body" /\ prog = <<>>
    /\ prev.valid /\ 1 \in DeletedBefore
    /\ \E k \in 1..Len(prev.prog) :
         /\ prev.prog[k].op = "deleteById" /\ prev.prog[k].id = 1
         /\ prev.results[k].kind = "bool" /\ ~prev.results[k].flag
    /\ scopes[1].state = "RolledBack"
    /\ FoundById(1).kind = "row"


\* The state of a scope in the terms of the scope state machine: a scope
\* whose ROLLBACK has not been answered is still open.
ScopeState(sc) ==
    CASE sc.state \in {"Open", "RollingBack"}     -> "Open"
      [] sc.state \in {"Committing", "Committed"} -> "Committed"
      [] OTHER                                    -> sc.state

ScopeTransitions ==
    { <<"Pending", "Open">>, <<"Open", "RolledBack">>, <<"Pending", "Aborted">> }

\* C14: a scope starts Pending and changes state only from Pending to Open,
\* from Open to RolledBack, or from Pending to Aborted: RolledBack and Aborted
\* are terminal, no scope becomes Open again and none is ever Committed.
C14_ScopeStateMachine ==
    [][/\ Len(scopes') >= Len(scopes)
       /\ \A i \in 1..Len(scopes') :
            IF i \in ScopeIds
            THEN \/ ScopeState(scopes'[i]) = ScopeState(scopes[i])
                 \/ <<ScopeState(scopes[i]), ScopeState(scopes'[i])>> \in ScopeTransitions
            ELSE ScopeState(scopes'[i]) = "Pending"]_vars

\* C14 witness: one scope has gone from Pending over Open to RolledBack and
\* the next one from Pending to Aborted.
C14_Witness ==
    /\ Len(scopes) = 2
    /\ prev.valid /\ scopes[1].state = "RolledBack"
    /\ scopes[2].state = "Aborted"

\* The database has processed the end of every scope but scope h.
AllProcessedBut(h) ==
    \A i \in ScopeIds : i # h => scopes[i].state \in {"RolledBack", "Aborted"}

\* C16: when the next before-each hook requests its transaction, and whenever
\* a test issues a mutating query, the database has already processed the
\* rollback of every earlier test's scope: the after-each hook of test N and
\* the before-each hook of test N+1 never overlap.
C16_RollbackBeforeNextTestsQueries ==
    [][/\ Answered => AllProcessedBut(items)
       /\ Len(scopes') > Len(scopes) => AllProcessedBut(0)
       /\ (pc = "beforeEachWait" /\ pc' = "test") => AllProcessedBut(Current)]_vars

\* C16 witness: the second test has changed rows in its scope after the
\* first test changed rows in its own and was rolled back.
C16_Witness ==
    /\ testIdx = 2 /\ pc = "body"
    /\ Len(prog) >= 1 /\ Mutated(prog, results)
    /\ prev.valid /\ Mutated(prev.prog, prev.results)
    /\ scopes[1].state = "RolledBack" /\ scopes[2].state = "Open"

\* The statement of operation o violates a constraint of the items table on
\* the rows the handle sees: sku is unique and not null.
ViolatesConstraint(o) ==
    \/ /\ o.op = "create"
       /\ o.sku = Null \/ \E r \in FindRows : r.sku = o.sku
    \/ /\ o.op = "updateById"
       /\ o.sku # Null
       /\ \E r \in FindRows : r.id = o.id
       /\ \E r \in FindRows : r.id # o.id /\ r.sku = o.sku

\* C17: a create or updateById whose statement violates the unique or the
\* not-null constraint on sku is answered to the test body as a rejection,
\* which ends the body as a failed test; the rejection does not touch the
\* lifetime promise of the scope or the hooks, and the rows of the table,
\* committed and as seen in the scope, stay as they were. No operation is
\* rejected in an open scope for another reason.
C17_QueryFailureReachesTestBody ==
    [][(Answered /\ ~txFailed) =>
         /\ ViolatesConstraint(LastOp') <=> (LastResult'.kind = "rejected")
         /\ ViolatesConstraint(LastOp') =>
              /\ LastResult' = Rejection
              /\ outcome' = "queryError"
              /\ pc' = "afterEach"
              /\ view' = view /\ table' = table
              /\ scopes' = scopes
              /\ failures' = failures]_vars

\* C17 witness: the previous test ended on a rejected create, and this one
\* has ended on a rejected updateById with its rows as they were.
C17_Witness ==
    /\ testIdx = 2 /\ pc = "afterEach" /\ outcome = "queryError"
    /\ prev.valid /\ Len(prev.prog) >= 1
    /\ prev.prog[Len(prev.prog)].op = "create"
    /\ prev.results[Len(prev.prog)].kind = "rejected"
    /\ Len(prog) = 1 /\ prog[1].op = "updateById" /\ results[1].kind = "rejected"
    /\ view = SeedRows /\ table = SeedRows
    /\ scopes[2].state = "Open" /\ scopes[2].promise = "pending"

\* C18: whenever the afterEach hook runs, trx holds the handle of the scope
\* that the beforeEach hook of the same test opened: it is defined, and it is
\* not the handle of an earlier test.
C18_AfterEachHoldsOwnHandle ==
    pc = "afterEach" => (trx # 0 /\ trx = Current)

====
